---- MODULE Spec2Model ----
(***************************************************************************)
(* Model of pwime's GUI core (src/pwime/gui/imgui_main.py): the memoizing  *)
(* asset manager, the session state (GuiState), the per-frame callbacks    *)
(* registered with hello_imgui and the deferred insertion of dock windows. *)
(***************************************************************************)
EXTENDS Integers, Sequences, FiniteSets, TLC

VARIABLES
    state,             \* the module-level GuiState instance
    dockable_windows,  \* runner_params.docking_params.dockable_windows
    pc,                \* position of the process: run_gui / frame loop
    cur,               \* index of the dock window the backend renders next
    created,           \* history: every DockableWindow built by a _create_dock_window_for_*
    requested,         \* history: windows requested since the last render pass began
    invoked,           \* history: indexes of the windows whose callback ran since then
    failure,           \* history: what raised last ("" when nothing did)
    indexOf,           \* history: serial of the manager state.mlvls was built from
    loads,             \* number of OurAssetManager instances constructed so far
    calls,             \* history: the direct get_file calls and their outcomes
    props,             \* the property node handed to _render_property
    opened,            \* the backend's tree nodes that are in the expanded state
    ui,                \* the backend: table rows drawn, tree stack, history of calls
    lookups            \* history: the world_name lookups that raised UnknownAssetId

vars == <<state, dockable_windows, pc, cur, created, requested, invoked,
          failure, indexOf, loads, calls, props, opened, ui, lookups>>

\* what a frame of the property table works on
screen == <<props, opened, ui>>

----------------------------------------------------------------------------
(* Bounds *)

MaxId == 1            \* asset identifiers are 1..MaxId in the frame-loop model
MaxLoads == 2         \* managers constructed in one run
MaxPanels == 3        \* dock windows created in one run (beside "File List")
MaxRows == 1          \* areas of a decoded world, script instances of an area
MaxCacheIds == 2      \* asset identifiers are 1..MaxCacheIds in the cache model
MaxCalls == 3         \* direct get_file calls in the cache model
MaxProps == 4         \* fields declared in a property tree, nested ones included
IndexMaxAssets == 5   \* identifiers of a container in the index model

None == <<>>
Some(x) == <<x>>

Ids == 1..MaxId
AssetTypes == {"MLVL", "MREA"}
TypeHints == {"BaseResource", "Mlvl", "Mrea"}

IsInjective(s) == \A i, j \in 1..Len(s) : s[i] = s[j] => i = j

\* A container as the provider exposes it: the identifiers it enumerates
\* (dictionary keys, hence distinct) and the declared type of each.
Image(e, t) == [ids |-> e, types |-> t]

\* the enumerations of k distinct identifiers of S
Enumerations(S, k) == {q \in [1..k -> S] : IsInjective(q)}

\* the containers of the frame-loop model: every identifier once, in
\* ascending order, of any type (the index model varies the order as well)
Images == {Image([k \in 1..MaxId |-> k], t) : t \in [1..MaxId -> AssetTypes]}

----------------------------------------------------------------------------
(* AssetManager (external), as far as the GUI uses it *)

all_asset_ids(self) == self.provider.ids

get_asset_type(self, i) ==
    LET k == CHOOSE k \in 1..Len(self.provider.ids) : self.provider.ids[k] = i
    IN self.provider.types[k]

ParseCalls(self, path) ==
    IF path \in DOMAIN self.parse_calls THEN self.parse_calls[path] ELSE 0

\* get_parsed_asset: one invocation of the decoder.  ok is whether the
\* decoder can locate and parse the identifier; every successful invocation
\* builds a new resource object.  parse_calls counts the invocations.
get_parsed_asset(self, path, type_hint, ok) ==
    LET n == ParseCalls(self, path) + 1
        counted == [self EXCEPT !.parse_calls =
                       [q \in DOMAIN @ \cup {path} |-> IF q = path THEN n ELSE @[q]]]
    IN [self |-> counted,
        raised |-> ~ok,
        ret |-> IF ok THEN Some([am |-> self.serial, id |-> path, kind |-> type_hint, n |-> n])
                ELSE None]

----------------------------------------------------------------------------
(* OurAssetManager *)

OurAssetManager(serial, provider) ==
    [serial |-> serial, provider |-> provider,
     memory_files |-> << >>,
     parse_calls |-> << >>]

\* get_file without the membership test: decodes on every call
get_file_always_parses(self, path, type_hint, ok) ==
    LET p == get_parsed_asset(self, path, type_hint, ok)
    IN IF p.raised
       THEN [self |-> p.self, raised |-> TRUE, ret |-> None]
       ELSE [self |-> [p.self EXCEPT !.memory_files =
                          [q \in DOMAIN @ \cup {path} |->
                              IF q = path THEN p.ret[1] ELSE @[q]]],
             raised |-> FALSE, ret |-> p.ret]

\* get_file that treats an entry of another type than the hint as a miss
get_file_checks_kind(self, path, type_hint, ok) ==
    IF path \in DOMAIN self.memory_files /\ self.memory_files[path].kind = type_hint
    THEN [self |-> self, raised |-> FALSE, ret |-> Some(self.memory_files[path])]
    ELSE get_file_always_parses(self, path, type_hint, ok)

\* get_file that asks the decoder a second time when the first attempt fails
get_file_retries(self, path, type_hint, ok) ==
    IF path \notin DOMAIN self.memory_files
    THEN LET p1 == get_parsed_asset(self, path, type_hint, ok)
             p == IF p1.raised THEN get_parsed_asset(p1.self, path, type_hint, ok) ELSE p1
         IN IF p.raised
            THEN [self |-> p.self, raised |-> TRUE, ret |-> None]
            ELSE [self |-> [p.self EXCEPT !.memory_files =
                               [q \in DOMAIN @ \cup {path} |->
                                   IF q = path THEN p.ret[1] ELSE @[q]]],
                  raised |-> FALSE, ret |-> p.ret]
    ELSE [self |-> self, raised |-> FALSE, ret |-> Some(self.memory_files[path])]

get_file(self, path, type_hint, ok) ==
    IF path \notin DOMAIN self.memory_files
    THEN LET p == get_parsed_asset(self, path, type_hint, ok)
         IN IF p.raised
            THEN [self |-> p.self, raised |-> TRUE, ret |-> None]
            ELSE [self |-> [p.self EXCEPT !.memory_files =
                               [q \in DOMAIN @ \cup {path} |->
                                   IF q = path THEN p.ret[1] ELSE @[q]]],
                  raised |-> FALSE, ret |-> p.ret]
    ELSE [self |-> self, raised |-> FALSE, ret |-> Some(self.memory_files[path])]

----------------------------------------------------------------------------
(* GuiState *)

GuiState ==
    [asset_manager |-> None, mlvls |-> << >>, open_file_dialog |-> None,
     selected_asset |-> None, pending_new_docks |-> << >>]

RECURSIVE MlvlsFrom_newest_first(_, _)
\* the generator collecting the identifiers in front of those found so far
MlvlsFrom_newest_first(am, k) ==
    IF k > Len(all_asset_ids(am)) THEN << >>
    ELSE LET i == all_asset_ids(am)[k]
         IN IF get_asset_type(am, i) = "MLVL"
            THEN MlvlsFrom_newest_first(am, k + 1) \o <<i>>
            ELSE MlvlsFrom_newest_first(am, k + 1)

RECURSIVE MlvlsFrom(_, _)
\* the generator of load_iso: walks all_asset_ids() from position k on and
\* keeps the identifiers whose asset type is "MLVL"
MlvlsFrom(am, k) ==
    IF k > Len(all_asset_ids(am)) THEN << >>
    ELSE LET i == all_asset_ids(am)[k]
         IN IF get_asset_type(am, i) = "MLVL"
            THEN <<i>> \o MlvlsFrom(am, k + 1)
            ELSE MlvlsFrom(am, k + 1)

LoadOutcomes == {"ok", "provider_error", "enum_error"}

\* load_iso that hands the mapping of the replaced manager to the new one
load_iso_keeps_cache(self, provider, serial, outcome) ==
    IF outcome = "provider_error"
    THEN [state |-> self, raised |-> TRUE, indexed |-> FALSE]
    ELSE LET fresh == OurAssetManager(serial, provider)
             am == IF self.asset_manager = None THEN fresh
                   ELSE [fresh EXCEPT !.memory_files = self.asset_manager[1].memory_files]
             s1 == [self EXCEPT !.asset_manager = Some(am)]
         IN IF outcome = "enum_error"
            THEN [state |-> s1, raised |-> TRUE, indexed |-> FALSE]
            ELSE [state |-> [s1 EXCEPT !.mlvls = MlvlsFrom(am, 1)],
                  raised |-> FALSE, indexed |-> TRUE]

\* load_iso.  outcome: "provider_error" when IsoFileProvider / the manager's
\* constructor raises, "enum_error" when all_asset_ids or get_asset_type
\* raises inside the generator, "ok" otherwise.
load_iso(self, provider, serial, outcome) ==
    IF outcome = "provider_error"
    THEN [state |-> self, raised |-> TRUE, indexed |-> FALSE]
    ELSE LET am == OurAssetManager(serial, provider)
             s1 == [self EXCEPT !.asset_manager = Some(am)]
         IN IF outcome = "enum_error"
            THEN [state |-> s1, raised |-> TRUE, indexed |-> FALSE]
            ELSE [state |-> [s1 EXCEPT !.mlvls = MlvlsFrom(am, 1)],
                  raised |-> FALSE, indexed |-> TRUE]

----------------------------------------------------------------------------
(* Property values (BaseProperty, external) and the imgui backend, as far  *)
(* as _render_property uses them                                           *)

\* a dataclass field of a property node: its name, its declared type and the
\* value the node holds for it
Field(name, type, item) == [name |-> name, type |-> type, item |-> item]

\* a value that is an instance of BaseProperty: a dataclass with fields
Struct(fields) ==
    [base_property |-> TRUE, cls |-> "Struct", text |-> "Struct(...)", fields |-> fields]

\* a value that is not: cls is type(item).__name__, text is str(item)
Scalar(cls, text) ==
    [base_property |-> FALSE, cls |-> cls, text |-> text, fields |-> << >>]

Scalars == {Scalar("int", "7"), Scalar("float", "1.5")}

\* what a dataclass may declare for a field; the declaration binds no value
DeclaredTypes == {"int", "Struct"}

\* the field names of a node with k fields, in the order of their declaration
FieldNamesOf(k) == IF k = 1 THEN {<<"a">>} ELSE {<<"a", "b">>, <<"b", "a">>}

RECURSIVE StructsWith(_)
\* the values at a field under which n fields are declared in total
ItemsWith(n) == IF n = 0 THEN Scalars \cup StructsWith(0) ELSE StructsWith(n)

\* the property nodes that declare n fields in total, nested ones included;
\* a node declares up to two fields
StructsWith(n) ==
    IF n = 0 THEN {Struct(<< >>)}
    ELSE {Struct(<<Field(nm[1], t, it)>>) :
              nm \in FieldNamesOf(1), t \in DeclaredTypes, it \in ItemsWith(n - 1)}
         \cup UNION {
              {Struct(<<Field(nm[1], t1, it1), Field(nm[2], t2, it2)>>) :
                   nm \in FieldNamesOf(2), t1 \in DeclaredTypes, t2 \in DeclaredTypes,
                   it1 \in ItemsWith(i), it2 \in ItemsWith(n - 2 - i)}
              : i \in 0..(n - 2)}

\* dataclasses.fields(props)
fields(node) == node.fields

\* the imgui state the property table touches: the rows of the current
\* table, the column being written, the tree stack, and the history of
\* tree_pop and _render_property calls.  outer is the tree stack at entry.
Backend(outer) ==
    [rows |-> << >>, col |-> 0, stack |-> outer, outer |-> outer,
     pops |-> << >>, entered |-> << >>, low |-> Len(outer), raised |-> FALSE]

table_next_row(b) ==
    [b EXCEPT !.rows = Append(@, [cells |-> <<"", "", "">>, indent |-> Len(b.stack),
                                  path |-> << >>]),
              !.col = 0]

table_next_column(b) == [b EXCEPT !.col = @ + 1]

\* imgui.text(s): writes s into the current cell
text(b, s) == [b EXCEPT !.rows[Len(b.rows)].cells[b.col] = s]

\* imgui.tree_node_ex(label, flags) for the tree node identified by path: a
\* leaf node is always open; another node is open when the user expanded
\* it.  An open node is pushed on the tree stack unless the flags say not to.
tree_node_ex(b, path, label, flags, expanded) ==
    LET is_open == ("leaf" \in flags) \/ (path \in expanded)
        drawn == [text(b, label) EXCEPT !.rows[Len(b.rows)].path = path]
    IN [ui |-> IF is_open /\ "no_tree_push_on_open" \notin flags
               THEN [drawn EXCEPT !.stack = Append(@, path)]
               ELSE drawn,
        is_open |-> is_open]

\* imgui.tree_pop(), called while rendering the field at path
tree_pop(b, path) ==
    LET popped == IF b.stack = << >> THEN b.stack
                  ELSE SubSeq(b.stack, 1, Len(b.stack) - 1)
    IN [b EXCEPT !.stack = popped,
                 !.pops = Append(@, [path |-> path, rows |-> Len(b.rows)]),
                 !.low = IF b.stack = << >> THEN -1
                         ELSE IF Len(popped) < @ THEN Len(popped) ELSE @]

----------------------------------------------------------------------------
(* _render_property *)

\* the test made on the declared type of the field instead of on its value
is_struct_by_declared_type(field) == field.type = "Struct"

\* line 60: isinstance(item, BaseProperty)
is_struct(field) == field.item.base_property

\* flags that leave out no_tree_push_on_open for a leaf
TreeNodeFlags_leaf_pushes(field) ==
    IF ~is_struct(field)
    THEN {"span_full_width", "leaf", "bullet"}
    ELSE {"span_full_width"}

\* lines 62-64
TreeNodeFlags(field) ==
    IF ~is_struct(field)
    THEN {"span_full_width", "leaf", "bullet", "no_tree_push_on_open"}
    ELSE {"span_full_width"}

\* the third cell always showing str(item)
ValueCell_always_str(field) == field.item.text

\* lines 71-74: the third cell of the row
ValueCell(field) == IF is_struct(field) THEN "--" ELSE field.item.text

\* the recursion made for every BaseProperty value, expanded or not
Descends_when_collapsed(field, is_open) == is_struct(field)

\* line 76
Descends(field, is_open) == is_struct(field) /\ is_open

RECURSIVE _render_property(_, _, _, _)
RECURSIVE _render_property_from(_, _, _, _, _)

\* the loop of _render_property over dataclasses.fields(node), from field k
\* on; path is the path of node from the root, expanded the open tree nodes
_render_property_from(node, k, path, expanded, b) ==
    IF b.raised \/ k > Len(fields(node)) THEN b
    ELSE LET field == fields(node)[k]
             here == Append(path, k)
             b1 == table_next_column(table_next_row(b))
             t == tree_node_ex(b1, here, field.name, TreeNodeFlags(field), expanded)
             b2 == text(table_next_column(t.ui), field.item.cls)
             b3 == text(table_next_column(b2), ValueCell(field))
             inner == _render_property(field.item, here, expanded, b3)
             b4 == IF Descends(field, t.is_open)
                   THEN IF inner.raised THEN inner ELSE tree_pop(inner, here)
                   ELSE b3
         IN _render_property_from(node, k + 1, path, expanded, b4)

\* dataclasses.fields raises TypeError for a value that is not a dataclass
_render_property(node, path, expanded, b) ==
    LET b1 == [b EXCEPT !.entered = Append(@, path)]
    IN IF ~node.base_property THEN [b1 EXCEPT !.raised = TRUE]
       ELSE _render_property_from(node, 1, path, expanded, b1)

----------------------------------------------------------------------------
(* Dock windows *)

DockableWindow(serial, label, func, args) ==
    [serial |-> serial, label |-> label, dock_space_name |-> "MainDockSpace",
     gui_function |-> [func |-> func, args |-> args]]

\* format(n, "08x"): the eight hexadecimal digits of n, most significant first
Hex8(n) == [d \in 1..8 |-> (n \div (16 ^ (8 - d))) % 16]

AreaOf(mlvl, k) == [mlvl |-> mlvl, index |-> k]
InstanceOf(area, j) == [area |-> area, id |-> j]

_create_dock_window_for_instance(area, instance, serial) ==
    DockableWindow(serial, <<"instance", instance.id, "area", area.index>>,
                   "_render_script_instance", <<instance>>)

_create_dock_window_for_area(area, serial) ==
    DockableWindow(serial, <<"area", area.index>>, "_render_area", <<area>>)

\* _create_dock_window_for_mlvl without the except clause: UnknownAssetId
\* leaves the function
_create_dock_window_for_mlvl_uncaught(st, mlvl_id, ok, named, serial) ==
    LET g == get_file(st.asset_manager[1], mlvl_id, "Mlvl", ok)
        st1 == [st EXCEPT !.asset_manager = Some(g.self)]
    IN IF g.raised \/ ~named
       THEN [state |-> st1, raised |-> TRUE, ret |-> None]
       ELSE [state |-> st1, raised |-> FALSE,
             ret |-> Some(DockableWindow(serial, <<"world_name", mlvl_id>>,
                                         "_render_mlvl", <<g.ret[1], mlvl_id>>))]

\* ok: the decoder can parse mlvl_id; named: mlvl.world_name is known
\* (otherwise it raises UnknownAssetId)
_create_dock_window_for_mlvl(st, mlvl_id, ok, named, serial) ==
    LET g == get_file(st.asset_manager[1], mlvl_id, "Mlvl", ok)
        st1 == [st EXCEPT !.asset_manager = Some(g.self)]
    IN IF g.raised
       THEN [state |-> st1, raised |-> TRUE, ret |-> None]
       ELSE LET mlvl == g.ret[1]
                name == IF named THEN <<"world_name", mlvl_id>>
                        ELSE <<"MLVL ", Hex8(mlvl_id)>>
            IN [state |-> st1, raised |-> FALSE,
                ret |-> Some(DockableWindow(serial, name, "_render_mlvl", <<mlvl, mlvl_id>>))]

----------------------------------------------------------------------------
(* Gui callbacks.  Each returns the GuiState it leaves, whether it raised,  *)
(* and (made) the DockableWindow objects it constructed, in order.          *)
(* sel is the set of rows whose imgui.selectable reports a click.           *)

RECURSIVE main_gui_rows(_, _, _, _, _, _, _)
\* the loop of main_gui over state.mlvls, from row k on
main_gui_rows(st, k, sel, okIds, namedIds, serial, made) ==
    IF k > Len(st.mlvls) THEN [state |-> st, raised |-> FALSE, made |-> made]
    ELSE IF k \in sel
    THEN LET i == st.mlvls[k]
             c == _create_dock_window_for_mlvl(st, i, i \in okIds, i \in namedIds, serial)
         IN IF c.raised
            THEN [state |-> c.state, raised |-> TRUE, made |-> made]
            ELSE main_gui_rows(
                     [c.state EXCEPT !.pending_new_docks = Append(@, c.ret[1])],
                     k + 1, sel, okIds, namedIds, serial + 1, Append(made, c.ret[1]))
    ELSE main_gui_rows(st, k + 1, sel, okIds, namedIds, serial, made)

main_gui(st, sel, okIds, namedIds, serial) ==
    IF st.asset_manager # None
    THEN main_gui_rows(st, 1, sel, okIds, namedIds, serial, << >>)
    ELSE [state |-> st, raised |-> FALSE, made |-> << >>]

RECURSIVE _render_mlvl_rows(_, _, _, _, _, _, _)
\* the loop of _render_mlvl over mlvl.areas, from row k on; failAt is the row
\* at which reading the area (mlvl.areas, area.name) raises, 0 for none
_render_mlvl_rows(st, mlvl, k, sel, failAt, serial, made) ==
    IF k > MaxRows THEN [state |-> st, raised |-> FALSE, made |-> made]
    ELSE IF k = failAt THEN [state |-> st, raised |-> TRUE, made |-> made]
    ELSE IF k \in sel
    THEN LET w == _create_dock_window_for_area(AreaOf(mlvl, k), serial)
         IN _render_mlvl_rows([st EXCEPT !.pending_new_docks = Append(@, w)],
                              mlvl, k + 1, sel, failAt, serial + 1, Append(made, w))
    ELSE _render_mlvl_rows(st, mlvl, k + 1, sel, failAt, serial, made)

_render_mlvl(st, mlvl, mlvl_id, sel, failAt, serial) ==
    _render_mlvl_rows(st, mlvl, 1, sel, failAt, serial, << >>)

RECURSIVE _render_area_rows(_, _, _, _, _, _, _)
\* the loops of _render_area over the instances of all layers, from row k on
_render_area_rows(st, area, k, sel, failAt, serial, made) ==
    IF k > MaxRows THEN [state |-> st, raised |-> FALSE, made |-> made]
    ELSE IF k = failAt THEN [state |-> st, raised |-> TRUE, made |-> made]
    ELSE IF k \in sel
    THEN LET w == _create_dock_window_for_instance(area, InstanceOf(area, k), serial)
         IN _render_area_rows([st EXCEPT !.pending_new_docks = Append(@, w)],
                              area, k + 1, sel, failAt, serial + 1, Append(made, w))
    ELSE _render_area_rows(st, area, k + 1, sel, failAt, serial, made)

_render_area(st, area, sel, failAt, serial) ==
    _render_area_rows(st, area, 1, sel, failAt, serial, << >>)

\* _render_script_instance draws the property table; it reads no GuiState
_render_script_instance(st, instance, fails) ==
    [state |-> st, raised |-> fails, made |-> << >>]

\* _show_menu.  click: "Open ISO" was chosen; ready: the dialog's ready();
\* files: the dialog's result(); provider/outcome: what load_iso meets.
_show_menu(st, click, dialog, ready, files, provider, serial, outcome) ==
    LET s1 == IF click THEN [st EXCEPT !.open_file_dialog = Some(dialog)] ELSE st
    IN IF s1.open_file_dialog # None /\ ready
       THEN IF files # << >>
            THEN LET l == load_iso(s1, provider, serial, outcome)
                 IN IF l.raised
                    THEN [state |-> l.state, raised |-> TRUE, indexed |-> l.indexed,
                          loaded |-> TRUE]
                    ELSE [state |-> [l.state EXCEPT !.open_file_dialog = None],
                          raised |-> FALSE, indexed |-> l.indexed, loaded |-> TRUE]
            ELSE [state |-> [s1 EXCEPT !.open_file_dialog = None],
                  raised |-> FALSE, indexed |-> FALSE, loaded |-> FALSE]
       ELSE [state |-> s1, raised |-> FALSE, indexed |-> FALSE, loaded |-> FALSE]

\* _pre_new_frame that puts the queued windows in front of the live ones
_pre_new_frame_prepends(st, windows) ==
    IF st.pending_new_docks # << >>
    THEN [state |-> [st EXCEPT !.pending_new_docks = << >>],
          dockable_windows |-> st.pending_new_docks \o windows]
    ELSE [state |-> st, dockable_windows |-> windows]

\* _pre_new_frame that forgets to empty the queue
_pre_new_frame_keeps_queue(st, windows) ==
    IF st.pending_new_docks # << >>
    THEN [state |-> st, dockable_windows |-> windows \o st.pending_new_docks]
    ELSE [state |-> st, dockable_windows |-> windows]

\* _pre_new_frame that skips a queued window whose gui function (callback
\* and bound node) some live window already has
_pre_new_frame_dedups(st, windows) ==
    IF st.pending_new_docks # << >>
    THEN [state |-> [st EXCEPT !.pending_new_docks = << >>],
          dockable_windows |->
              windows \o SelectSeq(st.pending_new_docks,
                  LAMBDA w : \A k \in 1..Len(windows) :
                                 windows[k].gui_function # w.gui_function)]
    ELSE [state |-> st, dockable_windows |-> windows]

_pre_new_frame(st, windows) ==
    IF st.pending_new_docks # << >>
    THEN [state |-> [st EXCEPT !.pending_new_docks = << >>],
          dockable_windows |-> windows \o st.pending_new_docks]
    ELSE [state |-> st, dockable_windows |-> windows]

----------------------------------------------------------------------------
(* The program: run_gui, then the frame loop of immapp.run, which calls     *)
(* pre_new_frame, show_menus and each dock window's gui_function per frame. *)
(* An exception leaving a callback leaves immapp.run and run_gui.           *)

\* portable_file_dialogs.open_file("Select ISO", filters=["*.iso"])
OpenFile == [title |-> "Select ISO", filters |-> <<"*.iso">>]

FileList == DockableWindow(0, <<"File List">>, "main_gui", << >>)

Init ==
    /\ state = GuiState
    /\ dockable_windows = << >>
    /\ pc = "run_gui"
    /\ cur = 0
    /\ created = << >>
    /\ requested = << >>
    /\ invoked = << >>
    /\ failure = ""
    /\ indexOf = 0
    /\ loads = 0
    /\ calls = << >>
    /\ props = Struct(<< >>)
    /\ opened = {}
    /\ ui = Backend(<< >>)
    /\ lookups = << >>

\* run_gui up to immapp.run: the initial load and the static window list
RunGui ==
    /\ pc = "run_gui"
    /\ \E provider \in Images, outcome \in LoadOutcomes :
          LET l == load_iso(state, provider, loads + 1, outcome)
          IN /\ state' = l.state
             /\ loads' = loads + 1
             /\ indexOf' = IF l.indexed THEN loads + 1 ELSE indexOf
             /\ IF l.raised
                THEN /\ pc' = "raised"
                     /\ failure' = "load_iso"
                     /\ UNCHANGED dockable_windows
                ELSE /\ pc' = "pre_new_frame"
                     /\ dockable_windows' = <<FileList>>
                     /\ UNCHANGED failure
    /\ UNCHANGED <<cur, created, requested, invoked, calls>>
    /\ UNCHANGED <<screen, lookups>>

PreNewFrame ==
    /\ pc = "pre_new_frame"
    /\ LET r == _pre_new_frame(state, dockable_windows)
       IN /\ state' = r.state
          /\ dockable_windows' = r.dockable_windows
    /\ pc' = "show_menus"
    /\ UNCHANGED <<cur, created, requested, invoked, failure, indexOf, loads, calls>>
    /\ UNCHANGED <<screen, lookups>>

\* ShowMenus where a successful load closes every window but "File List"
ShowMenusWith_closes_windows(click, ready, files, provider, outcome) ==
    LET r == _show_menu(state, click, OpenFile, ready, files,
                        provider, loads + 1, outcome)
    IN /\ state' = r.state
       /\ loads' = IF r.loaded THEN loads + 1 ELSE loads
       /\ indexOf' = IF r.indexed THEN loads + 1 ELSE indexOf
       /\ IF r.raised
          THEN pc' = "raised" /\ failure' = "load_iso" /\ UNCHANGED cur
          ELSE pc' = "gui" /\ cur' = 1 /\ UNCHANGED failure
       /\ requested' = << >>
       /\ invoked' = << >>
       /\ dockable_windows' = IF r.indexed THEN <<FileList>> ELSE dockable_windows
       /\ UNCHANGED <<created, calls>>
       /\ UNCHANGED <<screen, lookups>>

\* ShowMenus with the inputs of one frame fixed
ShowMenusWith(click, ready, files, provider, outcome) ==
    LET r == _show_menu(state, click, OpenFile, ready, files,
                        provider, loads + 1, outcome)
    IN /\ state' = r.state
       /\ loads' = IF r.loaded THEN loads + 1 ELSE loads
       /\ indexOf' = IF r.indexed THEN loads + 1 ELSE indexOf
       /\ IF r.raised
          THEN pc' = "raised" /\ failure' = "load_iso" /\ UNCHANGED cur
          ELSE pc' = "gui" /\ cur' = 1 /\ UNCHANGED failure
       /\ requested' = << >>
       /\ invoked' = << >>
       /\ UNCHANGED <<dockable_windows, created, calls>>
       /\ UNCHANGED <<screen, lookups>>

\* the inputs of _show_menu that can make a difference in the current state:
\* without a dialog nothing is polled, a dialog that is not ready has no
\* result, and a constructor that raises has read no container
ShowMenus ==
    /\ pc = "show_menus"
    /\ \E click \in BOOLEAN :
          LET anyImage == CHOOSE im \in Images : TRUE
          IN IF ~click /\ state.open_file_dialog = None
             THEN ShowMenusWith(click, FALSE, << >>, anyImage, "ok")
             ELSE \/ ShowMenusWith(click, FALSE, << >>, anyImage, "ok")
                  \/ ShowMenusWith(click, TRUE, << >>, anyImage, "ok")
                  \/ /\ loads < MaxLoads
                     /\ \/ ShowMenusWith(click, TRUE, <<"a.iso">>, anyImage, "provider_error")
                        \/ \E provider \in Images, outcome \in {"ok", "enum_error"} :
                              ShowMenusWith(click, TRUE, <<"a.iso">>, provider, outcome)

\* what the frame loop does with the outcome r of the gui_function of window cur
Dispatched(r, func) ==
    /\ Len(created) + Len(r.made) <= MaxPanels
    /\ state' = r.state
    /\ created' = created \o r.made
    /\ requested' = requested \o r.made
    /\ invoked' = Append(invoked, cur)
    /\ IF r.raised
       THEN pc' = "raised" /\ failure' = func /\ UNCHANGED cur
       ELSE /\ UNCHANGED failure
            /\ IF cur < Len(dockable_windows)
               THEN cur' = cur + 1 /\ pc' = "gui"
               ELSE cur' = 0 /\ pc' = "pre_new_frame"
    /\ UNCHANGED <<dockable_windows, indexOf, loads, calls>>
    /\ UNCHANGED screen

Current == dockable_windows[cur].gui_function

\* the rows of a table of n rows that report a click in one call of a gui
\* function: the mouse is over one row at most
Clicks(n) == {{}} \cup {{k} : k \in 1..n}

Manager == state.asset_manager[1]

\* the name lookups of one call of main_gui that raise UnknownAssetId: the
\* selected rows main_gui gets to (none after a row whose get_file raised)
\* that resolve and have no known name, in row order
Unnamed(st, sel, okIds, namedIds) ==
    LET row(i) == CHOOSE k \in 1..Len(st.mlvls) : st.mlvls[k] = i
        reached(i) == row(i) \in sel /\ \A j \in sel : j < row(i) => st.mlvls[j] \in okIds
        ids == SelectSeq(st.mlvls, LAMBDA i : reached(i) /\ i \in okIds /\ i \notin namedIds)
    IN [k \in 1..Len(ids) |-> [am |-> st.asset_manager[1].serial, id |-> ids[k]]]

RenderFileList ==
    /\ pc = "gui"
    /\ Current.func = "main_gui"
    /\ \E sel \in Clicks(Len(state.mlvls)) :
       \E okIds, namedIds \in SUBSET Ids :
          /\ namedIds \subseteq okIds
          /\ okIds \subseteq {state.mlvls[k] : k \in sel}
          /\ {state.mlvls[k] : k \in sel} \cap DOMAIN Manager.memory_files \subseteq okIds
          /\ Dispatched(main_gui(state, sel, okIds, namedIds, Len(created) + 1), "main_gui")
          /\ lookups' = lookups \o Unnamed(state, sel, okIds, namedIds)

RenderMlvl ==
    /\ pc = "gui"
    /\ Current.func = "_render_mlvl"
    /\ \E sel \in Clicks(MaxRows), failAt \in 0..MaxRows :
          /\ failAt # 0 => sel \subseteq 1..(failAt - 1)
          /\ Dispatched(_render_mlvl(state, Current.args[1], Current.args[2], sel, failAt,
                                  Len(created) + 1), "_render_mlvl")
          /\ UNCHANGED lookups

RenderArea ==
    /\ pc = "gui"
    /\ Current.func = "_render_area"
    /\ \E sel \in Clicks(MaxRows), failAt \in 0..MaxRows :
          /\ failAt # 0 => sel \subseteq 1..(failAt - 1)
          /\ Dispatched(_render_area(state, Current.args[1], sel, failAt, Len(created) + 1),
                     "_render_area")
          /\ UNCHANGED lookups

RenderScriptInstance ==
    /\ pc = "gui"
    /\ Current.func = "_render_script_instance"
    /\ \E fails \in BOOLEAN :
          /\ Dispatched(_render_script_instance(state, Current.args[1], fails),
                        "_render_script_instance")
          /\ UNCHANGED lookups

Next ==
    \/ RunGui
    \/ PreNewFrame
    \/ ShowMenus
    \/ RenderFileList
    \/ RenderMlvl
    \/ RenderArea
    \/ RenderScriptInstance

Spec == Init /\ [][Next]_vars

----------------------------------------------------------------------------
(* OurAssetManager used directly: any caller, any identifier, any type     *)
(* hint, the decoder succeeding or failing on each invocation.             *)

CacheIds == 1..MaxCacheIds

FullImage == [ids |-> [k \in CacheIds |-> k], types |-> [k \in CacheIds |-> "MLVL"]]

CacheInit ==
    /\ state = load_iso(GuiState, FullImage, 1, "ok").state
    /\ dockable_windows = << >>
    /\ pc = "api"
    /\ cur = 0
    /\ created = << >>
    /\ requested = << >>
    /\ invoked = << >>
    /\ failure = ""
    /\ indexOf = 1
    /\ loads = 1
    /\ calls = << >>
    /\ props = Struct(<< >>)
    /\ opened = {}
    /\ ui = Backend(<< >>)
    /\ lookups = << >>

GetFileCall ==
    /\ pc = "api"
    /\ state.asset_manager # None
    /\ Len(calls) < MaxCalls
    /\ \E path \in CacheIds, type_hint \in TypeHints, ok \in BOOLEAN :
          LET am == state.asset_manager[1]
              g == get_file(am, path, type_hint, ok)
          IN /\ state' = [state EXCEPT !.asset_manager = Some(g.self)]
             /\ calls' = Append(calls,
                    [path |-> path, type_hint |-> type_hint,
                     hit |-> path \in DOMAIN am.memory_files, ok |-> ok,
                     raised |-> g.raised, ret |-> g.ret,
                     parsed |-> ParseCalls(g.self, path) - ParseCalls(am, path)])
    /\ UNCHANGED <<dockable_windows, pc, cur, created, requested, invoked,
                   failure, indexOf, loads>>
    /\ UNCHANGED <<screen, lookups>>

CacheNext == GetFileCall

CacheSpec == CacheInit /\ [][CacheNext]_vars

----------------------------------------------------------------------------
(* load_iso used directly on a session that is new or already loaded, over *)
(* containers of up to IndexMaxAssets identifiers.                         *)

IndexInit ==
    /\ \/ state = GuiState /\ loads = 0 /\ indexOf = 0
       \/ /\ state = load_iso(GuiState, FullImage, 1, "ok").state
          /\ loads = 1
          /\ indexOf = 1
    /\ dockable_windows = << >>
    /\ pc = "api"
    /\ cur = 0
    /\ created = << >>
    /\ requested = << >>
    /\ invoked = << >>
    /\ failure = ""
    /\ calls = << >>
    /\ props = Struct(<< >>)
    /\ opened = {}
    /\ ui = Backend(<< >>)
    /\ lookups = << >>

LoadIsoCall ==
    /\ pc = "api"
    /\ \E k \in 0..IndexMaxAssets, outcome \in LoadOutcomes :
       \E e \in Enumerations(1..IndexMaxAssets, k), t \in [1..k -> AssetTypes] :
          LET l == load_iso(state, Image(e, t), loads + 1, outcome)
          IN /\ state' = l.state
             /\ loads' = loads + 1
             /\ indexOf' = IF l.indexed THEN loads + 1 ELSE indexOf
             /\ failure' = IF l.raised THEN "load_iso" ELSE ""
             /\ pc' = "loaded"
    /\ UNCHANGED <<dockable_windows, cur, created, requested, invoked, calls>>
    /\ UNCHANGED <<screen, lookups>>

IndexNext == LoadIsoCall

IndexSpec == IndexInit /\ [][IndexNext]_vars

----------------------------------------------------------------------------
(* _render_property used directly on any property node of up to MaxProps   *)
(* fields, under any expansion state of its tree nodes, inside or outside  *)
(* an open tree node of the caller.                                        *)

RECURSIVE StructPaths(_, _)
\* the paths of the fields of node (at path) whose value is a BaseProperty
StructPaths(node, path) ==
    UNION {IF is_struct(fields(node)[k])
           THEN {Append(path, k)} \cup StructPaths(fields(node)[k].item, Append(path, k))
           ELSE {}
           : k \in 1..Len(fields(node))}

RenderInit ==
    /\ state = GuiState
    /\ dockable_windows = << >>
    /\ pc = "table"
    /\ cur = 0
    /\ created = << >>
    /\ requested = << >>
    /\ invoked = << >>
    /\ failure = ""
    /\ indexOf = 0
    /\ loads = 0
    /\ calls = << >>
    /\ \E n \in 0..MaxProps : props \in StructsWith(n)
    /\ opened \in SUBSET StructPaths(props, << >>)
    /\ \E outer \in {<< >>, << <<0>> >>} : ui = Backend(outer)
    /\ lookups = << >>

RenderPropertyCall ==
    /\ pc = "table"
    /\ ui' = _render_property(props, << >>, opened, ui)
    /\ pc' = IF ui'.raised THEN "raised" ELSE "rendered"
    /\ UNCHANGED <<state, dockable_windows, cur, created, requested, invoked,
                   failure, indexOf, loads, calls, props, opened, lookups>>

RenderNext == RenderPropertyCall

RenderSpec == RenderInit /\ [][RenderNext]_vars

----------------------------------------------------------------------------
(* Properties of OurAssetManager.get_file (CacheSpec) *)

CallIdx == 1..Len(calls)

\* C1 as stated: any two get_file calls for one identifier that return yield
\* the same node instance, and the decoder is invoked at most once for each
\* identifier.
C1_AtMostOneDecoderCall ==
    /\ \A i, j \in CallIdx :
          (calls[i].path = calls[j].path /\ ~calls[i].raised /\ ~calls[j].raised)
             => calls[i].ret = calls[j].ret
    /\ \A id \in CacheIds : ParseCalls(Manager, id) <= 1

\* C1 (amended): any two get_file calls for one identifier that return yield
\* the same node instance, the decoder succeeds at most once for each
\* identifier, and it is never invoked for an identifier after a call for
\* that identifier has returned.
C1_Memoization ==
    /\ \A i, j \in CallIdx :
          (calls[i].path = calls[j].path /\ ~calls[i].raised /\ ~calls[j].raised)
             => calls[i].ret = calls[j].ret
    /\ \A id \in CacheIds :
          Cardinality({i \in CallIdx : calls[i].path = id /\ calls[i].parsed > 0
                                          /\ ~calls[i].raised}) <= 1
    /\ \A i, j \in CallIdx :
          (i < j /\ calls[i].path = calls[j].path /\ ~calls[i].raised)
             => calls[j].parsed = 0

\* two calls for one identifier returned, after a failed decode of it
C1_Witness ==
    \E h, i, j \in CallIdx :
        /\ h < i /\ i < j
        /\ calls[h].path = calls[i].path /\ calls[i].path = calls[j].path
        /\ calls[h].raised /\ ~calls[i].raised /\ ~calls[j].raised

\* C8: a call that finds its identifier in the cache returns the node stored
\* by the call that decoded it, of the type that call asked for, whatever
\* its own type hint is, and does not invoke the decoder.
C8_HitIgnoresTypeHint ==
    \A i \in CallIdx :
        calls[i].hit =>
            /\ ~calls[i].raised
            /\ calls[i].parsed = 0
            /\ \E j \in 1..(i - 1) :
                  /\ calls[j].path = calls[i].path
                  /\ ~calls[j].hit /\ ~calls[j].raised
                  /\ calls[i].ret = calls[j].ret
                  /\ calls[i].ret[1].kind = calls[j].type_hint

\* a hit whose type hint differs from the type the node was decoded as
C8_Witness ==
    \E i \in CallIdx :
        /\ calls[i].hit
        /\ calls[i].ret # None
        /\ calls[i].ret[1].kind # calls[i].type_hint

LastCall == calls[Len(calls)]

\* C9: a call for an identifier that is not cached and that the decoder
\* cannot parse raises, invokes the decoder exactly once and leaves the
\* cache mapping as it was.
C9_DecoderFailurePropagates ==
    [][(Len(calls') = Len(calls) + 1 /\ ~LastCall'.hit /\ ~LastCall'.ok)
          => /\ LastCall'.raised
             /\ LastCall'.ret = None
             /\ LastCall'.parsed = 1
             /\ Manager'.memory_files = Manager.memory_files]_vars

\* the last call raised on a miss while other identifiers are cached
C9_Witness ==
    /\ calls # << >>
    /\ LastCall.raised /\ ~LastCall.hit
    /\ LastCall.path \notin DOMAIN Manager.memory_files
    /\ DOMAIN Manager.memory_files # {}

----------------------------------------------------------------------------
(* Properties of the deferred insertion of dock windows (Spec) *)

Pending == state.pending_new_docks

\* C2: the live window list does not change during a frame's render pass
\* (menus and gui functions), whatever is requested meanwhile, and
\* _pre_new_frame turns it into the previous list followed by exactly the
\* windows requested during that pass, in the order of the requests.
C2_PanelBuffering ==
    [][/\ pc \in {"show_menus", "gui"} => dockable_windows' = dockable_windows
       /\ pc = "pre_new_frame" =>
             /\ dockable_windows' = dockable_windows \o requested
             /\ Len(dockable_windows') = Len(dockable_windows) + Len(requested)]_vars

\* two windows requested in one render pass have just been merged, in order
C2_Witness ==
    /\ pc = "show_menus"
    /\ Len(requested) = 2
    /\ Len(dockable_windows) >= 3
    /\ SubSeq(dockable_windows, Len(dockable_windows) - 1, Len(dockable_windows)) = requested

\* C3: the queue is empty after _pre_new_frame and when a render pass
\* starts, and the live list followed by the queue is always the static
\* "File List" window followed by every window ever requested, once each,
\* in the order of the requests.
C3_MergedExactlyOnce ==
    /\ pc = "show_menus" => Pending = << >>
    /\ (pc = "gui" /\ cur = 1 /\ invoked = << >>) => Pending = << >>
    /\ dockable_windows # << >> =>
          dockable_windows \o Pending = <<FileList>> \o created

\* windows requested in two different frames are both live, none is queued
C3_Witness ==
    /\ pc = "show_menus"
    /\ Pending = << >>
    /\ Len(created) = 2
    /\ Len(dockable_windows) = 3
    /\ requested = <<created[2]>>

----------------------------------------------------------------------------
(* Properties of failures and of loading (Spec, IndexSpec) *)

\* the gui functions of the windows opened for a node
PanelFuncs == {"_render_mlvl", "_render_area", "_render_script_instance"}

AllWindows == [k \in 1..Len(dockable_windows) |-> k]

\* C4: when the gui function of a window has failed and the frame's render
\* pass is over, the gui function of every live window has been invoked in
\* that pass, in list order (the windows after the failing one included).
C4_PanelFailureIsolated ==
    (failure \in PanelFuncs /\ pc \in {"raised", "pre_new_frame"})
        => invoked = AllWindows

\* C5: the active cache and the index always come from the same load: a
\* load that fails leaves both as they were.
C5_LoadAllOrNothing ==
    state.asset_manager # None => indexOf = Manager.serial

\* C10: a failure of get_file for a selected world row does not leave the
\* render pass and does not end the frame loop.
C10_ResolutionFailureIsLocal ==
    failure = "main_gui" => pc # "raised"

\* C7: a load (one more manager constructed) leaves the live window list and
\* the queue as they were, every window still bound to the node it was made
\* with, and a load that succeeds makes its manager and index the active ones.
C7_LoadKeepsPanels ==
    [][loads' # loads =>
          /\ Pending' = Pending
          /\ created' = created
          /\ pc = "show_menus" => dockable_windows' = dockable_windows
          /\ pc' # "raised" => (Manager'.serial = loads' /\ indexOf' = loads')]_vars

\* after a reload a live world window is bound to a node of the replaced cache
C7_Witness ==
    /\ pc = "gui"
    /\ loads = 2
    /\ \E k \in 1..Len(dockable_windows) :
          /\ dockable_windows[k].gui_function.func = "_render_mlvl"
          /\ dockable_windows[k].gui_function.args[1].am # Manager.serial

Position(e, x) == CHOOSE k \in 1..Len(e) : e[k] = x

\* C6: after a successful load the index holds each enumerated identifier of
\* type "MLVL" exactly once, holds nothing else, and keeps the order of the
\* enumeration.
C6_IndexIsMlvlSubsequence ==
    (pc = "loaded" /\ failure = "") =>
        LET e == Manager.provider.ids
            t == Manager.provider.types
            m == state.mlvls
        IN /\ \A k \in 1..Len(e) :
                 t[k] = "MLVL" => Cardinality({j \in 1..Len(m) : m[j] = e[k]}) = 1
           /\ \A j \in 1..Len(m) : \E k \in 1..Len(e) : e[k] = m[j] /\ t[k] = "MLVL"
           /\ \A i, j \in 1..Len(m) : i < j => Position(e, m[i]) < Position(e, m[j])

\* five identifiers of types W, W, X, X, X were loaded over an earlier
\* session: the index is the first two
C6_Witness ==
    /\ pc = "loaded" /\ failure = ""
    /\ loads = 2
    /\ Manager.provider.types = <<"MLVL", "MLVL", "MREA", "MREA", "MREA">>
    /\ state.mlvls = SubSeq(Manager.provider.ids, 1, 2)

----------------------------------------------------------------------------
(* Properties of duplicate windows, the cache mapping and the file dialog  *)
(* (Spec)                                                                  *)

\* how many windows of the sequence ws have the gui function g
Bound(ws, g) == Cardinality({k \in 1..Len(ws) : ws[k].gui_function = g})

\* C11: no step removes or replaces a live window, and after every frame
\* boundary the live list has one entry of its own for every selection made
\* so far: a row selected k times has k live windows with the same callback
\* bound to the same node, and worlds resolved twice through one manager are
\* bound to the same node.
C11_NoDeduplication ==
    [][/\ Len(dockable_windows') >= Len(dockable_windows)
       /\ SubSeq(dockable_windows', 1, Len(dockable_windows)) = dockable_windows
       /\ pc' = "show_menus" =>
             /\ Len(dockable_windows') = 1 + Len(created')
             /\ \A i \in 1..Len(created') :
                   Bound(dockable_windows', created'[i].gui_function)
                       = Bound(created', created'[i].gui_function)
             /\ \A i, j \in 1..Len(dockable_windows') :
                   i # j => dockable_windows'[i].serial # dockable_windows'[j].serial
             /\ \A i, j \in 1..Len(created') :
                   (/\ created'[i].gui_function.func = "_render_mlvl"
                    /\ created'[j].gui_function.func = "_render_mlvl"
                    /\ created'[i].gui_function.args[2] = created'[j].gui_function.args[2]
                    /\ created'[i].gui_function.args[1].am = created'[j].gui_function.args[1].am)
                      => created'[i].gui_function = created'[j].gui_function]_vars

\* the same area of a world was selected twice: two live windows bound to it
\* beside the world's own window
C11_Witness ==
    /\ pc = "show_menus"
    /\ \E i, j \in 1..Len(dockable_windows) :
          /\ i < j
          /\ dockable_windows[i].gui_function.func = "_render_area"
          /\ dockable_windows[i].gui_function = dockable_windows[j].gui_function
          /\ dockable_windows[i].serial # dockable_windows[j].serial

----------------------------------------------------------------------------
(* Properties of _render_property (RenderSpec) *)

RECURSIVE FieldAt(_, _)
\* the field of node that the path leads to
FieldAt(node, path) ==
    IF Len(path) = 1 THEN node.fields[path[1]]
    ELSE FieldAt(node.fields[path[1]].item, Tail(path))

\* the value exposes named sub-fields: it is a dataclass instance, the kind
\* of value dataclasses.fields accepts
ExposesSubFields(item) == item.cls = "Struct"

RECURSIVE Shown(_, _, _, _)
\* the paths of the fields to show for node (at path), from field k on: each
\* field in declared order, followed by the fields of its value when that is
\* a composite in the expanded state
Shown(node, k, path, expanded) ==
    IF k > Len(node.fields) THEN << >>
    ELSE LET here == Append(path, k)
             item == node.fields[k].item
         IN <<here>>
            \o (IF ExposesSubFields(item) /\ here \in expanded
                THEN Shown(item, 1, here, expanded) ELSE << >>)
            \o Shown(node, k + 1, path, expanded)

RowPaths == [i \in 1..Len(ui.rows) |-> ui.rows[i].path]

\* C12: the rows drawn are one per declared field in declared order, each
\* followed by the rows of its value's own fields exactly when it is an
\* expanded composite; a row holds the field's name, the runtime type name
\* and the value's text (leaf) or "--" (composite); the root's fields make
\* as many rows at depth 0 as there are fields, whatever is expanded.
C12_OneRowPerField ==
    pc = "rendered" =>
        /\ RowPaths = Shown(props, 1, << >>, opened)
        /\ \A i \in 1..Len(ui.rows) :
              LET f == FieldAt(props, ui.rows[i].path)
              IN ui.rows[i].cells =
                    <<f.name, f.item.cls,
                      IF ExposesSubFields(f.item) THEN "--" ELSE f.item.text>>
        /\ SelectSeq(RowPaths, LAMBDA q : Len(q) = 1)
              = [k \in 1..Len(props.fields) |-> <<k>>]

\* fields {a: leaf, b: composite}, b expanded: two rows at depth 0 and the
\* rows of b's fields right after b's row
C12_Witness ==
    /\ pc = "rendered"
    /\ Len(props.fields) = 2
    /\ props.fields[1].name = "a" /\ ~props.fields[1].item.base_property
    /\ props.fields[2].name = "b" /\ Len(props.fields[2].item.fields) = 2
    /\ <<2>> \in opened
    /\ RowPaths = << <<1>>, <<2>>, <<2, 1>>, <<2, 2>> >>

\* the row of the field at path q is drawn as a composite: placeholder value,
\* a tree node that is not a leaf (it opens only when expanded), recursed
\* into when open
DrawnComposite(i) ==
    LET q == ui.rows[i].path
    IN /\ ui.rows[i].cells[3] = "--"
       /\ (q \in opened) = (\E j \in 1..Len(ui.entered) : ui.entered[j] = q)

\* the row is drawn as a leaf: the value's text, never recursed into
DrawnLeaf(i) ==
    LET q == ui.rows[i].path
    IN /\ ui.rows[i].cells[3] = FieldAt(props, q).item.text
       /\ \A j \in 1..Len(ui.entered) : ui.entered[j] # q

\* C13: a field is drawn as a composite exactly when its runtime value
\* exposes named sub-fields and as a leaf otherwise, whatever type the field
\* declares.
C13_ClassifiedByRuntimeValue ==
    pc = "rendered" =>
        \A i \in 1..Len(ui.rows) :
            LET f == FieldAt(props, ui.rows[i].path)
            IN /\ ExposesSubFields(f.item) => (DrawnComposite(i) /\ ~DrawnLeaf(i))
               /\ ~ExposesSubFields(f.item) => (DrawnLeaf(i) /\ ~DrawnComposite(i))

\* two fields of one node declaring the same type, the first holding an
\* expanded composite and the second a scalar
C13_Witness ==
    /\ pc = "rendered"
    /\ Len(props.fields) = 2
    /\ props.fields[1].type = props.fields[2].type
    /\ ExposesSubFields(props.fields[1].item) /\ <<1>> \in opened
    /\ props.fields[1].item.fields # << >>
    /\ ~ExposesSubFields(props.fields[2].item)
    /\ DrawnComposite(1)
    /\ DrawnLeaf(Len(ui.rows))

RECURSIVE Nesting(_)
\* how deep property nodes nest: 1 for a node holding no other node
Nesting(node) ==
    LET inner == {Nesting(node.fields[k].item) :
                     k \in {j \in 1..Len(node.fields) : ExposesSubFields(node.fields[j].item)}}
    IN 1 + (IF inner = {} THEN 0 ELSE CHOOSE m \in inner : \A n \in inner : n <= m)

IsPrefix(q, r) == Len(q) <= Len(r) /\ SubSeq(r, 1, Len(q)) = q

\* C15: _render_property returns for every tree and expansion state; it is
\* entered once for the root and once for each composite field that is
\* expanded and whose ancestors all are, never twice for the same node and
\* never deeper than the data nests, and every row drawn lies under
\* expanded fields only.
C15_RecursionFollowsExpansion ==
    /\ pc # "raised"
    /\ pc = "rendered" =>
          /\ ui.entered[1] = << >>
          /\ \A i, j \in 1..Len(ui.entered) : ui.entered[i] = ui.entered[j] => i = j
          /\ {ui.entered[i] : i \in 2..Len(ui.entered)}
                = {q \in StructPaths(props, << >>) :
                      \A n \in 1..Len(q) : SubSeq(q, 1, n) \in opened}
          /\ \A i \in 1..Len(ui.entered) : Len(ui.entered[i]) + 1 <= Nesting(props)
          /\ \A i \in 1..Len(ui.rows) :
                \A n \in 1..(Len(ui.rows[i].path) - 1) :
                    SubSeq(ui.rows[i].path, 1, n) \in opened

\* a collapsed composite holds an expanded composite with a field: neither
\* is entered and none of their fields are drawn
C15_Witness ==
    /\ pc = "rendered"
    /\ <<1>> \notin opened
    /\ <<1, 1>> \in opened
    /\ FieldAt(props, <<1, 1>>).item.fields # << >>
    /\ ui.entered = << << >> >>
    /\ Len(ui.rows) = Len(props.fields)

\* C19: tree_pop is called exactly once for each composite field whose tree
\* node was open, after all rows below that field, and for no other field;
\* the tree stack never goes below its depth at entry and is the same at
\* return as at entry.
C19_TreePushPopBalanced ==
    /\ ui.low >= Len(ui.outer)
    /\ ui.low >= 0
    /\ pc = "rendered" =>
          /\ ui.stack = ui.outer
          /\ \A i, j \in 1..Len(ui.pops) : ui.pops[i].path = ui.pops[j].path => i = j
          /\ {ui.pops[i].path : i \in 1..Len(ui.pops)}
                = {ui.rows[i].path : i \in {j \in 1..Len(ui.rows) :
                      /\ FieldAt(props, ui.rows[j].path).item.base_property
                      /\ ui.rows[j].path \in opened}}
          /\ \A i \in 1..Len(ui.pops) : \A j \in 1..Len(ui.rows) :
                IsPrefix(ui.pops[i].path, ui.rows[j].path) => j <= ui.pops[i].rows

\* rendered inside an open tree node of the caller: an expanded composite
\* with a leaf below it, a collapsed composite and a leaf were drawn; one pop
C19_Witness ==
    /\ pc = "rendered"
    /\ ui.outer # << >>
    /\ Len(ui.pops) = 1
    /\ \E i, j, k \in 1..Len(ui.rows) :
          /\ FieldAt(props, ui.rows[i].path).item.base_property
          /\ ui.rows[i].path \notin opened
          /\ ~FieldAt(props, ui.rows[j].path).item.base_property
          /\ Len(ui.rows[k].path) = 2

----------------------------------------------------------------------------
(* Properties of the cache mapping, world titles and the file dialog (Spec) *)

RECURSIVE HexValue(_)
\* the number a sequence of hexadecimal digits denotes
HexValue(h) == IF h = << >> THEN 0 ELSE 16 * HexValue(SubSeq(h, 1, Len(h) - 1)) + h[Len(h)]

\* C16: when a selected world resolves and its name lookup raises
\* UnknownAssetId, main_gui goes on: exactly one window is queued for it,
\* titled "MLVL " followed by eight hexadecimal digits denoting the
\* identifier and bound to the resolved node, which is in the cache.
C16_PlaceholderTitle ==
    [][Len(lookups') = Len(lookups) + 1 =>
          LET e == lookups'[Len(lookups')]
              w == Pending'[Len(Pending')]
          IN /\ pc' # "raised"
             /\ Len(Pending') = Len(Pending) + 1
             /\ Pending' = Append(Pending, w)
             /\ w.label[1] = "MLVL "
             /\ Len(w.label[2]) = 8
             /\ \A d \in 1..8 : w.label[2][d] \in 0..15
             /\ HexValue(w.label[2]) = e.id
             /\ w.gui_function.func = "_render_mlvl"
             /\ w.gui_function.args[2] = e.id
             /\ e.am = Manager'.serial
             /\ e.id \in DOMAIN Manager'.memory_files
             /\ w.gui_function.args[1] = Manager'.memory_files[e.id]]_vars

\* a world without a known name was selected and its window is live
C16_Witness ==
    /\ pc = "show_menus"
    /\ lookups # << >>
    /\ \E k \in 1..Len(dockable_windows) :
          /\ dockable_windows[k].label[1] = "MLVL "
          /\ dockable_windows[k].gui_function.args[2] = lookups[1].id

\* C17: a load that succeeds leaves the active manager with an empty
\* mapping and no decoder call made, and at any time every node in the
\* active mapping, and every node a world window is bound to when it is
\* made, was decoded by the active manager itself.
C17_ReloadStartsEmpty ==
    [][/\ (loads' # loads /\ pc' # "raised") =>
             /\ Manager'.serial = loads'
             /\ Manager'.memory_files = << >>
             /\ Manager'.parse_calls = << >>
       /\ state'.asset_manager # None =>
             /\ \A id \in DOMAIN Manager'.memory_files :
                   /\ Manager'.memory_files[id].am = Manager'.serial
                   /\ Manager'.memory_files[id].id = id
                   /\ ParseCalls(Manager', id) >= 1
             /\ \A k \in (Len(created) + 1)..Len(created') :
                   created'[k].gui_function.func = "_render_mlvl"
                      => created'[k].gui_function.args[1].am = Manager'.serial]_vars

\* world 1 was cached, the container was replaced, and world 1 was decoded
\* again by the new manager
C17_Witness ==
    /\ loads = 2
    /\ state.asset_manager # None
    /\ 1 \in DOMAIN Manager.memory_files
    /\ Manager.memory_files[1].am = 2
    /\ \E k \in 1..Len(created) :
          /\ created[k].gui_function.func = "_render_mlvl"
          /\ created[k].gui_function.args[2] = 1
          /\ created[k].gui_function.args[1].am = 1

\* C18: _show_menu triggers at most one load per frame, after a load it has
\* reset open_file_dialog to None whatever the outcome of the load, and
\* without a load it leaves the cache and the index as they were.
C18_DialogConsumedOnce ==
    [][pc = "show_menus" =>
          /\ loads' \in {loads, loads + 1}
          /\ loads' # loads => state'.open_file_dialog = None
          /\ loads' = loads =>
                /\ state'.asset_manager = state.asset_manager
                /\ state'.mlvls = state.mlvls]_vars

====
